---- MODULE Spec2Model ----
(***************************************************************************)
(* Model of the sold-food counter (src/src/app.rs): the ledger held by     *)
(* TemplateApp (sold_food, history, n), the two JSON files it is saved to  *)
(* and loaded from, and the button handlers of TemplateApp::update.        *)
(* The native target is modelled (the cfg(not(target_arch = "wasm32"))     *)
(* branches); on wasm32 the File menu does not exist and nothing is saved. *)
(***************************************************************************)
EXTENDS Integers, Sequences, FiniteSets, TLC

(* ------------------------------ bounds --------------------------------- *)
\* longest history the buttons may build
MaxHist == 3
\* the +1 button is pressed only while n is below this
MaxN == 3
\* the time source stops advancing here
MaxClock == 2
\* longest sequence found in a file at startup
MaxFileLen == 2
\* longest history built while writes of the files fail
MaxIoHist == 2

(* ------------------------- program constants --------------------------- *)
\* usize::MAX, the value a wrapping "0 - 1" yields.  The real value is 2^64 - 1;
\* it stands here as the largest integer TLC represents.  Nothing in the
\* model computes with it except the wrapping +1 / -1.
USIZE_MAX == 2147483647

\* default(): n: 3
DefaultN == 3

\* the catalog (プレーン, チョコ, いちご, はちみつ, シナモン), in declaration order
food_list == <<"plain", "choco", "ichigo", "hachimitsu", "cinnamon">>

\* the item buttons the model presses: the first two of the catalog
Pressed == {1, 2}

(* ------------------------------ state ---------------------------------- *)
VARIABLES
    sold_food,   \* TemplateApp.sold_food : Vec<SoldFood>
    history,     \* TemplateApp.history   : Vec<Order>
    n,           \* TemplateApp.n         : usize
    clock,       \* the last reading chrono::Utc::now() returned
    panicked,    \* the process died of a panic / abort
    file_sold,   \* sold_food.json
    file_hist,   \* history.json
    booted,      \* TemplateApp::new has run
    pattern,     \* (observer) the ledger handlers that ran last, see Note
    undo_stack,  \* (observer) the ledger as it was before each Order still in history
    io           \* (observer) the save_to_file of the handler that ran last: which
                 \* handler and how the two writes ended; <<>> if it saved nothing

vars == <<sold_food, history, n, clock, panicked, file_sold, file_hist, booted,
          pattern, undo_stack, io>>

(* ------------------------------ data ----------------------------------- *)
\* struct SoldFood { name, time }
SoldFood(name, time) == [name |-> name, time |-> time]

\* Order::Food(SoldFood, usize)
Food(f, q) == [tag |-> "Food", food |-> f, n |-> q]

\* Order::Reset
Reset == [tag |-> "Reset"]

Min(a, b) == IF a < b THEN a ELSE b

\* (mutant) a pop that takes the two last elements
pop_two(s) == SubSeq(s, 1, Len(s) - 2)

\* Vec::pop as used by the undo loop: None on an empty vector, which the loop ignores
pop(s) == IF s = <<>> THEN s ELSE SubSeq(s, 1, Len(s) - 1)

\* vec![f.clone(); q]
Replicate(f, q) == [i \in 1..q |-> f]

\* the item names of a sequence of units
Names(s) == [i \in 1..Len(s) |-> s[i].name]

(* ------------------------------ files ---------------------------------- *)
\* what a path holds: nothing, bytes that do not parse, or a serialized value
Absent == [kind |-> "absent"]
Malformed == [kind |-> "malformed"]
Json(v) == [kind |-> "json", data |-> v]

\* how one save_to_file_* call ends: Ok, or an error returned by `?` before
\* the old file is gone (exists, remove_file), by File::create, or by to_writer
SaveOutcomes == {"ok", "err_before_remove", "err_create", "err_write"}
NoFailure == {"ok"}

\* save_to_file_sold_food / save_to_file_history: exists?, remove_file?, create?,
\* to_writer?.  The path holds afterwards: the old bytes when exists or
\* remove_file failed, nothing when create failed after the removal, a
\* truncated document when the write failed, the serialized value otherwise.
save_file(file, data, o) ==
    CASE o = "ok" -> Json(data)
      [] o = "err_before_remove" -> file
      [] o = "err_create" -> Absent
      [] o = "err_write" -> Malformed

save_to_file_sold_food(file, sold, o) == save_file(file, sold, o)

save_to_file_history(file, hist, o) == save_file(file, hist, o)

\* (mutant) save_to_file returning at the first error, as with `?`
save_to_file_early_return(fs, fh, sold, hist, o1, o2) ==
    [sold |-> save_to_file_sold_food(fs, sold, o1),
     hist |-> IF o1 = "ok" THEN save_to_file_history(fh, hist, o2) ELSE fh,
     outcome |-> <<o1, IF o1 = "ok" THEN o2 ELSE "not_attempted">>,
     result |-> IF o1 = "ok" THEN "Ok" ELSE "Err"]

\* save_to_file: both files are written, each error is printed and dropped,
\* and the result is Ok(()) whatever happened.
save_to_file(fs, fh, sold, hist, o1, o2) ==
    [sold |-> save_to_file_sold_food(fs, sold, o1),
     hist |-> save_to_file_history(fh, hist, o2),
     outcome |-> <<o1, o2>>,
     result |-> "Ok"]

\* how one load_*_from_file call ends up to the parse: Ok, or an I/O error
LoadOutcomes == {"ok", "err_io"}

\* load_sold_food_from_file / load_history_from_file: the field is assigned
\* only when the file exists, opens and parses.
load_file(file, cur, o) ==
    IF o # "ok" THEN [value |-> cur, result |-> "Err"]
    ELSE IF file.kind = "absent" THEN [value |-> cur, result |-> "Ok"]
    ELSE IF file.kind = "malformed" THEN [value |-> cur, result |-> "Err"]
    ELSE [value |-> file.data, result |-> "Ok"]

load_sold_food_from_file(file, cur, o) == load_file(file, cur, o)

load_history_from_file(file, cur, o) == load_file(file, cur, o)

(* --------------------------- pure functions ---------------------------- *)
None == [some |-> FALSE]
Some(v) == [some |-> TRUE, v |-> v]

\* the 0-based indices of the Order::Reset entries of h
ResetIndices(h) == {i \in 0..(Len(h) - 1) : h[i + 1].tag = "Reset"}

\* (mutant) get_last_history stopping at the first Order::Reset
get_last_history_first(h) ==
    IF ResetIndices(h) = {} THEN None
    ELSE Some(CHOOSE i \in ResetIndices(h) : \A j \in ResetIndices(h) : i <= j)

\* get_last_history: the 0-based index of the last Order::Reset, if any
get_last_history(h) ==
    IF ResetIndices(h) = {} THEN None
    ELSE Some(CHOOSE i \in ResetIndices(h) : \A j \in ResetIndices(h) : j <= i)

\* (mutant) the flat_map yielding each unit once, its quantity forgotten
flat_map_food_once(s) ==
    [i \in 1..Len(s) |-> IF s[i].tag = "Food" THEN s[i].food ELSE s[i]]

\* (mutant) the slice folded from its newest entry back to its oldest
RECURSIVE flat_map_food_reversed(_)
flat_map_food_reversed(s) ==
    IF s = <<>> THEN <<>>
    ELSE IF s[Len(s)].tag = "Food"
         THEN Replicate(s[Len(s)].food, s[Len(s)].n)
                 \o flat_map_food_reversed(SubSeq(s, 1, Len(s) - 1))
         ELSE flat_map_food_reversed(SubSeq(s, 1, Len(s) - 1))

\* the flat_map of the undo handler over a slice of history.  The handler
\* evaluates it only on a slice of Order::Food entries: on any other entry it
\* panics instead (hits_unreachable).
RECURSIVE flat_map_food(_)
flat_map_food(s) ==
    IF s = <<>> THEN <<>>
    ELSE IF Head(s).tag = "Food"
         THEN Replicate(Head(s).food, Head(s).n) \o flat_map_food(Tail(s))
         ELSE flat_map_food(Tail(s))

\* the flat_map reaches unreachable!() on an entry that is not Order::Food
hits_unreachable(s) == \E i \in 1..Len(s) : s[i].tag # "Food"

\* (mutant) the whole history folded, the last Reset not looked for
undo_slice_whole(h) == h

\* (mutant) the slice taken from the Reset itself: history[n..]
undo_slice_from_reset(h) ==
    LET last == get_last_history(h)
    IN IF last.some THEN SubSeq(h, last.v + 1, Len(h)) ELSE h

\* the slice the undo handler folds: history[n + 1..], or all of it
undo_slice(h) ==
    LET last == get_last_history(h)
    IN IF last.some THEN SubSeq(h, last.v + 2, Len(h)) ELSE h

\* (mutant) one pop too many: for _ in 0..=q
pop_n_inclusive(s, q) == SubSeq(s, 1, Len(s) - (q + 1))

\* (mutant) a single pop whatever the quantity
pop_n_once(s, q) == pop(s)

\* for _ in 0..q { sold_food.pop(); }
RECURSIVE pop_n(_, _)
pop_n(s, q) == IF q = 0 \/ s = <<>> THEN s ELSE pop_n(pop(s), q - 1)

\* (mutant) every item counted as all the units sold, the filter forgotten
sold_food_count_unfiltered(sold) ==
    [k \in 1..Len(food_list) |-> <<food_list[k], Len(sold)>>]

\* sold_food_count: for each item of the catalog, in its order, the pair of
\* the name and the number of units of sold_food with that name
sold_food_count(sold) ==
    [k \in 1..Len(food_list) |->
        <<food_list[k], Len(SelectSeq(sold, LAMBDA f : f.name = food_list[k]))>>]

\* the order count of the label: history.len() as isize - last (or -1) - 1
order_count(h) ==
    LET last == get_last_history(h)
    IN Len(h) - (IF last.some THEN last.v ELSE -1) - 1

\* chrono::Utc::now(): the k-th reading after reading c.  Each reading is one
\* tick later than the one before it, until the time source stops at MaxClock,
\* from where on all readings are equal.
now(c, k) == Min(c + k, MaxClock)

\* (observer) what an undo finds: an empty history, an Order::Reset, an
\* Order::Food of more units than sold_food holds, or any other Order::Food
UndoKinds == {"undo_empty", "undo_reset", "undo_short", "undo"}

undo_kind(h, sold) ==
    IF h = <<>> THEN "undo_empty"
    ELSE IF h[Len(h)].tag = "Reset" THEN "undo_reset"
    ELSE IF h[Len(h)].n > Len(sold) THEN "undo_short"
    ELSE "undo"

\* (observer) which ledger handlers (sale, reset, undo) ran last: "sale",
\* "reset", "reset_reset" (two resets in a row), and an undo right after
\* each of these; any other undo is noted by what it found.
Note(p, op) ==
    CASE op = "sale" -> "sale"
      [] op = "reset" -> IF p \in {"reset", "reset_reset"} THEN "reset_reset" ELSE "reset"
      [] op \in UndoKinds -> IF p \in {"sale", "reset", "reset_reset"} THEN p \o "_undo" ELSE op

\* the patterns an undo leaves
UndoPatterns == UndoKinds \cup {"sale_undo", "reset_undo", "reset_reset_undo"}

Snapshot == [history |-> history, sold_food |-> sold_food]

(* ----------------------------- handlers -------------------------------- *)
\* the state after Default::default() when neither file exists and new() ran
Init ==
    /\ sold_food = <<>>
    /\ history = <<>>
    /\ n = DefaultN
    /\ clock = 0
    /\ panicked = FALSE
    /\ file_sold = Absent
    /\ file_hist = Absent
    /\ booted = TRUE
    /\ pattern = "start"
    /\ undo_stack = <<>>
    /\ io = <<>>

Running == booted /\ ~panicked

\* the save_to_file call of handler by; its result is printed when it is an
\* error (unwrap_or_else) and changes nothing else
Flush(by, sold, hist, o1, o2) ==
    LET saved == save_to_file(file_sold, file_hist, sold, hist, o1, o2)
    IN /\ file_sold' = saved.sold
       /\ file_hist' = saved.hist
       /\ io' = [by |-> by, sold |-> saved.outcome[1], hist |-> saved.outcome[2]]

\* add_sold_food(food_list[i]), for the quantities n <= MaxN
AddSoldFood(i, o1, o2) ==
    /\ Running
    /\ n <= MaxN
    /\ sold_food' = sold_food \o [j \in 1..n |-> SoldFood(food_list[i], now(clock, j))]
    /\ history' = Append(history, Food(SoldFood(food_list[i], now(clock, n + 1)), n))
    /\ clock' = now(clock, n + 1)
    /\ Flush("sale", sold_food', history', o1, o2)
    /\ pattern' = Note(pattern, "sale")
    /\ undo_stack' = Append(undo_stack, Snapshot)
    /\ UNCHANGED <<n, panicked, booted>>

\* add_sold_food with n = usize::MAX: the push loop exhausts memory and the
\* process aborts before it returns
AddSoldFoodAbort ==
    /\ Running
    /\ n = USIZE_MAX
    /\ panicked' = TRUE
    /\ io' = <<>>
    /\ UNCHANGED <<sold_food, history, n, clock, file_sold,
                   file_hist, booted, pattern, undo_stack>>

\* the +1 button: self.n += 1.  n is usize::MAX only in a build that wraps
\* (it got there by the wrapping -1 below), so the +1 wraps too.
PlusOne ==
    /\ Running
    /\ n < MaxN \/ n = USIZE_MAX
    /\ n' = IF n = USIZE_MAX THEN 0 ELSE n + 1
    /\ io' = <<>>
    /\ UNCHANGED <<sold_food, history, clock, panicked, file_sold,
                   file_hist, booted, pattern, undo_stack>>

\* the -1 button: self.n -= 1.  At 0 the subtraction overflows: a build with
\* overflow checks (the debug profile) panics, one without (release) wraps.
MinusOne ==
    /\ Running
    /\ n <= MaxN
    /\ IF n = 0
       THEN \E overflow_checks \in BOOLEAN :
               IF overflow_checks
               THEN panicked' = TRUE /\ n' = n
               ELSE panicked' = panicked /\ n' = USIZE_MAX
       ELSE panicked' = panicked /\ n' = n - 1
    /\ io' = <<>>
    /\ UNCHANGED <<sold_food, history, clock, file_sold,
                   file_hist, booted, pattern, undo_stack>>

\* File > Reset: clear, save, and only then push Order::Reset
ResetButton(o1, o2) ==
    /\ Running
    /\ sold_food' = <<>>
    /\ Flush("reset", sold_food', history, o1, o2)
    /\ history' = Append(history, Reset)
    /\ pattern' = Note(pattern, "reset")
    /\ undo_stack' = Append(undo_stack, Snapshot)
    /\ UNCHANGED <<n, clock, panicked, booted>>

\* (mutant) an undo of a sale that pops the quantity set now, not the one stored
undo_sold_food_current_n(sold, h, e) ==
    IF e.tag = "Food" THEN pop_n(sold, n) ELSE flat_map_food(undo_slice(h))

\* (mutant) an undo that pops the Reset and rebuilds nothing
undo_sold_food_no_rebuild(sold, h, e) ==
    IF e.tag = "Food" THEN pop_n(sold, e.n) ELSE sold

\* what the undo handler leaves in sold_food after popping entry e off history,
\* h being the history that remains
undo_sold_food(sold, h, e) ==
    IF e.tag = "Food" THEN pop_n(sold, e.n) ELSE flat_map_food(undo_slice(h))

\* (mutant) the undo button unwrapping history.pop(): a panic on an empty history
UndoButton_unwrap(o1, o2) ==
    /\ Running
    /\ IF history = <<>>
       THEN /\ panicked' = TRUE
            /\ io' = <<>>
            /\ UNCHANGED <<sold_food, history, file_sold, file_hist>>
       ELSE LET e == history[Len(history)]
                h == pop(history)
            IN /\ history' = h
               /\ IF e.tag = "Reset" /\ hits_unreachable(undo_slice(h))
                  THEN /\ panicked' = TRUE
                       /\ io' = <<>>
                       /\ UNCHANGED <<sold_food, file_sold, file_hist>>
                  ELSE /\ panicked' = panicked
                       /\ sold_food' = undo_sold_food(sold_food, h, e)
                       /\ Flush("undo", sold_food', h, o1, o2)
    /\ pattern' = Note(pattern, undo_kind(history, sold_food))
    /\ undo_stack' = pop(undo_stack)
    /\ UNCHANGED <<n, clock, booted>>

\* the undo button (取り消し)
UndoButton(o1, o2) ==
    /\ Running
    /\ IF history = <<>>
       THEN /\ UNCHANGED <<sold_food, history, panicked>>
            /\ Flush("undo", sold_food, history, o1, o2)
       ELSE LET e == history[Len(history)]
                h == pop(history)
            IN /\ history' = h
               /\ IF e.tag = "Reset" /\ hits_unreachable(undo_slice(h))
                  THEN /\ panicked' = TRUE
                       /\ io' = <<>>
                       /\ UNCHANGED <<sold_food, file_sold, file_hist>>
                  ELSE /\ panicked' = panicked
                       /\ sold_food' = undo_sold_food(sold_food, h, e)
                       /\ Flush("undo", sold_food', h, o1, o2)
    /\ pattern' = Note(pattern, undo_kind(history, sold_food))
    /\ undo_stack' = pop(undo_stack)
    /\ UNCHANGED <<n, clock, booted>>

\* File > Save
SaveButton(o1, o2) ==
    /\ Running
    /\ Flush("save", sold_food, history, o1, o2)
    /\ UNCHANGED <<sold_food, history, n, clock, panicked, booted,
                   pattern, undo_stack>>

\* File > Load, and the load of new(): each file is loaded on its own, an
\* error of one is printed and the other is loaded all the same
load_from_file(sold, hist, l1, l2) ==
    [sold_food |-> load_sold_food_from_file(file_sold, sold, l1).value,
     history |-> load_history_from_file(file_hist, hist, l2).value,
     result |-> "Ok"]

\* TemplateApp::new: Self::default(), then load_from_file
New(l1, l2) ==
    /\ ~booted
    /\ LET app == load_from_file(<<>>, <<>>, l1, l2)
       IN /\ sold_food' = app.sold_food
          /\ history' = app.history
    /\ n' = DefaultN
    /\ booted' = TRUE
    /\ pattern' = "load"
    /\ undo_stack' = <<>>
    /\ io' = <<>>
    /\ UNCHANGED <<clock, panicked, file_sold, file_hist>>

\* File > Load
LoadButton(l1, l2) ==
    /\ Running
    /\ LET app == load_from_file(sold_food, history, l1, l2)
       IN /\ sold_food' = app.sold_food
          /\ history' = app.history
    /\ pattern' = "load"
    /\ undo_stack' = <<>>
    /\ io' = <<>>
    /\ UNCHANGED <<n, clock, panicked, file_sold, file_hist, booted>>

\* the handlers of the ledger, the history growing to at most cap entries by
\* the item buttons in the set pressed, each write of a file ending in one of
\* outcomes
Buttons(pressed, cap, outcomes) ==
    \/ /\ Len(history) < cap
       /\ \E i \in pressed, o1, o2 \in outcomes : AddSoldFood(i, o1, o2)
    \/ AddSoldFoodAbort
    \/ PlusOne
    \/ MinusOne
    \/ /\ Len(history) < cap
       /\ \E o1, o2 \in outcomes : ResetButton(o1, o2)
    \/ \E o1, o2 \in outcomes : UndoButton(o1, o2)
    \/ \E o1, o2 \in outcomes : SaveButton(o1, o2)

\* the buttons pressed from the empty ledger, no write failing
Next == Buttons(Pressed, MaxHist, NoFailure)

Spec == Init /\ [][Next]_vars

\* the same on a longer history of one item
NextLong == Buttons({1}, MaxHist + 1, NoFailure)

SpecLong == Init /\ [][NextLong]_vars

\* sale, reset and undo with every write of a file free to fail
NextIO ==
    \/ /\ Len(history) < MaxIoHist
       /\ \E o1, o2 \in SaveOutcomes : AddSoldFood(1, o1, o2)
    \/ /\ Len(history) < MaxIoHist
       /\ \E o1, o2 \in SaveOutcomes : ResetButton(o1, o2)
    \/ \E o1, o2 \in SaveOutcomes : UndoButton(o1, o2)

SpecIO == Init /\ [][NextIO]_vars

\* the units and orders a file found at startup may hold
FileUnits == {SoldFood(food_list[i], 0) : i \in Pressed}
FileOrders == {Food(f, q) : f \in FileUnits, q \in 0..MaxFileLen} \cup {Reset}

\* every sequence of at most MaxFileLen elements of S
SeqsUpTo(S) == UNION {[1..k -> S] : k \in 0..MaxFileLen}

\* the process starts on two files of any content
InitBoot ==
    /\ sold_food = <<>>
    /\ history = <<>>
    /\ n = DefaultN
    /\ clock = 0
    /\ panicked = FALSE
    /\ file_sold \in {Absent, Malformed} \cup {Json(d) : d \in SeqsUpTo(FileUnits)}
    /\ file_hist \in {Absent, Malformed} \cup {Json(d) : d \in SeqsUpTo(FileOrders)}
    /\ booted = FALSE
    /\ pattern = "start"
    /\ undo_stack = <<>>
    /\ io = <<>>

\* startup, then the buttons on what was loaded
NextBoot ==
    \/ \E l1, l2 \in LoadOutcomes : New(l1, l2)
    \/ \E l1, l2 \in LoadOutcomes : LoadButton(l1, l2)
    \/ Buttons({1}, MaxFileLen, NoFailure)

SpecBoot == InitBoot /\ [][NextBoot]_vars

\* the units and orders of files that hold the one item NextBoot presses
FirstItemUnits == {SoldFood(food_list[1], 0)}
FirstItemOrders == {Food(f, q) : f \in FirstItemUnits, q \in 0..MaxFileLen} \cup {Reset}

\* the process starts on two files of any content of that item
InitBootOne ==
    /\ sold_food = <<>>
    /\ history = <<>>
    /\ n = DefaultN
    /\ clock = 0
    /\ panicked = FALSE
    /\ file_sold \in {Absent, Malformed} \cup {Json(d) : d \in SeqsUpTo(FirstItemUnits)}
    /\ file_hist \in {Absent, Malformed} \cup {Json(d) : d \in SeqsUpTo(FirstItemOrders)}
    /\ booted = FALSE
    /\ pattern = "start"
    /\ undo_stack = <<>>
    /\ io = <<>>

SpecBootOne == InitBootOne /\ [][NextBoot]_vars

\* the app is quit and started again: new() builds the default ledger and
\* loads the two files as the last save left them, no read failing
Restart ==
    /\ Running
    /\ LET app == load_from_file(<<>>, <<>>, "ok", "ok")
       IN /\ sold_food' = app.sold_food
          /\ history' = app.history
    /\ n' = DefaultN
    /\ pattern' = "load"
    /\ undo_stack' = <<>>
    /\ io' = <<>>
    /\ UNCHANGED <<clock, panicked, file_sold, file_hist, booted>>

\* the buttons pressed from the empty ledger, and restarts
NextRestart ==
    \/ Buttons(Pressed, MaxFileLen, NoFailure)
    \/ Restart

SpecRestart == Init /\ [][NextRestart]_vars

(* ------------------------------ claims --------------------------------- *)
\* the snapshot on top of undo_stack: the ledger before the newest Order was pushed
Top == undo_stack[Len(undo_stack)]

\* 1-based position of the last Order::Reset of h, 0 when it holds none
LastResetPos(h) ==
    CHOOSE p \in 0..Len(h) :
        /\ p > 0 => h[p].tag = "Reset"
        /\ \A i \in (p + 1)..Len(h) : h[i].tag # "Reset"

\* the item name of every Order::Food of h from position from on, in log order,
\* each repeated its quantity times
RECURSIVE FlattenNames(_, _)
FlattenNames(h, from) ==
    IF from > Len(h) THEN <<>>
    ELSE (IF h[from].tag = "Food" THEN [j \in 1..h[from].n |-> h[from].food.name]
          ELSE <<>>) \o FlattenNames(h, from + 1)

\* this step is the undo handler popping an entry with this tag
UndoPops(tag) ==
    /\ pattern' \in UndoPatterns
    /\ history # <<>>
    /\ history[Len(history)].tag = tag
    /\ history' = pop(history)

\* C1: reconstruction invariant.  After any sequence of sale, +1/-1, reset and
\* undo from the empty ledger, the item names of sold_food are the quantity
\* copies of the name of every Order::Food after the last Order::Reset of
\* history (of every entry when it holds no Reset), in log order.
C1_Reconstruction ==
    Names(sold_food) = FlattenNames(history, LastResetPos(history) + 1)

\* an undo has popped a Reset and rebuilt a non-empty sold_food behind an earlier Reset
C1_Witness ==
    /\ pattern = "reset_undo"
    /\ sold_food # <<>>
    /\ LastResetPos(history) > 0
    /\ ~panicked

\* C2: undo-of-reset round trip.  Reset followed by undo restores history to
\* exactly what it was before the reset and sold_food to the same item names.
C2_ResetUndoRoundTrip ==
    [][(pattern = "reset" /\ pattern' = "reset_undo") =>
          /\ ~panicked'
          /\ history' = Top.history
          /\ Len(history') = Len(Top.history)
          /\ Names(sold_food') = Names(Top.sold_food)]_vars

\* a reset of a non-empty tally was undone
C2_Witness == pattern = "reset_undo" /\ sold_food # <<>> /\ ~panicked

\* C3: undo-of-sale.  A sale of any item with any quantity n >= 0 followed
\* by undo leaves sold_food and history identical to what they were before
\* the sale.
C3_SaleUndoIdentity ==
    [][(pattern = "sale" /\ pattern' = "sale_undo") =>
          /\ ~panicked'
          /\ history' = Top.history
          /\ sold_food' = Top.sold_food]_vars

\* a sale was undone over units of an earlier sale
C3_Witness == pattern = "sale_undo" /\ sold_food # <<>> /\ ~panicked

\* C4: when undo pops an Order::Reset the rebuilt sold_food is, unit for unit
\* and timestamp for timestamp, the sold_food held before that Reset was
\* appended.
C4_RebuildKeepsTimestamps ==
    [][UndoPops("Reset") => sold_food' = Top.sold_food]_vars

\* C5: -1 pressed at n = 0 leaves n at 0 and does not panic.
C5_MinusClampsAtZero ==
    [][(n = 0 /\ MinusOne) => (n' = 0 /\ ~panicked')]_vars

\* C6: with no I/O error, after every sale, undo and reset the event-log file
\* holds the in-memory history and the active-units file the in-memory
\* sold_food.
C6_FlushedAfterMutation ==
    (io # <<>> /\ io.by \in {"sale", "undo", "reset"}) =>
        (file_hist = Json(history) /\ file_sold = Json(sold_food))

\* the tags of a history
Tags(h) == [i \in 1..Len(h) |-> h[i].tag]

\* C7: the order count history.len() - 1 - (index of the last Reset, or -1) is
\* the number of Order::Food entries after the last Reset, is never negative,
\* is 1 for [Sale, Sale, Checkpoint, Sale] and is 0 right after a reset.
C7_OrderCount ==
    /\ order_count(history) =
          Cardinality({i \in 1..Len(history) :
                         i > LastResetPos(history) /\ history[i].tag = "Food"})
    /\ order_count(history) >= 0
    /\ Tags(history) = <<"Food", "Food", "Reset", "Food">> => order_count(history) = 1
    /\ pattern \in {"reset", "reset_reset"} => order_count(history) = 0

\* the history [Sale, Sale, Checkpoint, Sale] with its count of 1
C7_Witness ==
    /\ Tags(history) = <<"Food", "Food", "Reset", "Food">>
    /\ order_count(history) = 1

\* C8: double reset.  Reset, reset, undo leaves sold_food empty and history one
\* entry shorter than after the second reset, the first Reset being its last
\* entry.
C8_DoubleReset ==
    [][(pattern = "reset_reset" /\ pattern' = "reset_reset_undo") =>
          /\ ~panicked'
          /\ sold_food' = <<>>
          /\ Len(history') = Len(history) - 1
          /\ history' = pop(history)
          /\ history'[Len(history')].tag = "Reset"]_vars

\* the second of two resets over a sale of at least one unit was undone
C8_Witness ==
    /\ pattern = "reset_reset_undo"
    /\ sold_food = <<>>
    /\ \E i \in 1..Len(history) : history[i].tag = "Food" /\ history[i].n > 0
    /\ ~panicked

\* the effect of add_sold_food on the ledger: one Order::Food of quantity n
\* appended, n units of its item appended, nothing else touched
SaleEffect ==
    /\ Len(history') = Len(history) + 1
    /\ SubSeq(history', 1, Len(history)) = history
    /\ LET e == history'[Len(history')]
       IN /\ e.tag = "Food"
          /\ e.n = n
          /\ Len(sold_food') = Len(sold_food) + n
          /\ SubSeq(sold_food', 1, Len(sold_food)) = sold_food
          /\ \A j \in (Len(sold_food) + 1)..Len(sold_food') :
                sold_food'[j].name = e.food.name

\* the effect of the Reset button on the ledger
ResetEffect == history' = Append(history, Reset) /\ sold_food' = <<>>

\* the effect of the undo button on the ledger
UndoEffect ==
    IF history = <<>> THEN history' = <<>> /\ sold_food' = sold_food
    ELSE /\ history' = SubSeq(history, 1, Len(history) - 1)
         /\ LET e == history[Len(history)]
            IN IF e.tag = "Food"
               THEN sold_food' = SubSeq(sold_food, 1, Len(sold_food) - e.n)
               ELSE Names(sold_food') =
                       FlattenNames(history', LastResetPos(history') + 1)

\* C9: a failed write of either file leaves the handler's effect on the
\* in-memory ledger whole (no rollback, no loss, no panic), and a failed write
\* of the active-units file does not keep the event-log file from being written.
C9_SaveFailureHarmless ==
    [][(io' # <<>> /\ (io'.sold # "ok" \/ io'.hist # "ok")) =>
          /\ ~panicked'
          /\ io'.by = "sale" => SaleEffect
          /\ io'.by = "reset" => ResetEffect
          /\ io'.by = "undo" => UndoEffect
          /\ io'.sold # "ok" =>
                /\ io'.hist \in SaveOutcomes
                /\ io'.hist = "ok" => file_hist' \in {Json(history), Json(history')}]_vars

\* an undo rebuilt or shortened a non-empty tally while the active-units file
\* could not be written and the event-log file could
C9_Witness ==
    /\ io # <<>>
    /\ io.by = "undo"
    /\ io.sold # "ok"
    /\ io.hist = "ok"
    /\ file_hist = Json(history)
    /\ sold_food # <<>>
    /\ ~panicked

\* C10: a malformed file at startup gives the default ledger (history and
\* sold_food empty, n = 3) whatever the other file holds.
C10_MalformedGivesDefault ==
    [][(~booted /\ booted' /\ "malformed" \in {file_sold.kind, file_hist.kind}) =>
          /\ history' = <<>>
          /\ sold_food' = <<>>
          /\ n' = DefaultN
          /\ ~panicked']_vars

\* C11: log mutation discipline.  A sale appends exactly one Order::Food
\* whatever the quantity and changes no earlier entry; reset appends exactly one
\* Order::Reset and changes no earlier entry; undo removes exactly the last
\* entry; +1 and -1 leave history and sold_food unchanged.
C11_LogDiscipline ==
    [][/\ (io' # <<>> /\ io'.by = "sale") =>
             /\ Len(history') = Len(history) + 1
             /\ SubSeq(history', 1, Len(history)) = history
             /\ history'[Len(history')].tag = "Food"
       /\ (io' # <<>> /\ io'.by = "reset") =>
             /\ Len(history') = Len(history) + 1
             /\ SubSeq(history', 1, Len(history)) = history
             /\ history'[Len(history')].tag = "Reset"
       /\ (io' # <<>> /\ io'.by = "undo" /\ history # <<>>) =>
             /\ Len(history') = Len(history) - 1
             /\ history' = SubSeq(history, 1, Len(history) - 1)
       /\ n' # n => (history' = history /\ sold_food' = sold_food)]_vars

\* a sale of quantity 0 has appended its entry behind an earlier one
C11_Witness ==
    /\ io # <<>>
    /\ io.by = "sale"
    /\ Len(history) >= 2
    /\ history[Len(history)].tag = "Food"
    /\ history[Len(history)].n = 0

\* the orders of a history as <<item, quantity>> pairs, a Reset as <<"Reset">>
Orders(h) ==
    [i \in 1..Len(h) |->
        IF h[i].tag = "Food" THEN <<h[i].food.name, h[i].n>> ELSE <<"Reset">>]

\* the counts of sold_food_count without the names
Counts(sold) ==
    LET c == sold_food_count(sold)
    IN [k \in 1..Len(food_list) |-> c[k][2]]

RECURSIVE SumSeq(_)
SumSeq(s) == IF s = <<>> THEN 0 ELSE Head(s) + SumSeq(Tail(s))

\* C12: per-item counts.  sold_food_count has one entry per catalog item in
\* catalog order, each the number of units of that item in sold_food, and the
\* counts sum to sold_food.len(); a sale of 3 A then of 2 B gives A:3, B:2 and
\* 5 in total, a reset after them all zeros with 3 entries in history, an undo
\* after that A:3, B:2 with 2 entries.
C12_PerItemCounts ==
    [](LET c == sold_food_count(sold_food)
          counts == Counts(sold_food)
          ab == <<<<"plain", 3>>, <<"choco", 2>>>>
      IN /\ Len(c) = Len(food_list)
         /\ \A k \in 1..Len(food_list) :
               /\ c[k][1] = food_list[k]
               /\ c[k][2] = Cardinality({j \in 1..Len(sold_food) :
                                           sold_food[j].name = food_list[k]})
         /\ SumSeq(counts) = Len(sold_food)
         /\ (pattern = "sale" /\ Orders(history) = ab) =>
               (counts = <<3, 2, 0, 0, 0>> /\ Len(sold_food) = 5)
         /\ (pattern = "reset" /\ Orders(history) = Append(ab, <<"Reset">>)) =>
               (counts = <<0, 0, 0, 0, 0>> /\ Len(history) = 3)
         /\ (pattern = "reset_undo" /\ Orders(history) = ab) =>
               (counts = <<3, 2, 0, 0, 0>> /\ Len(history) = 2))

\* the scenario has run to its end: 3 A, 2 B, reset, undo
C12_Witness ==
    /\ pattern = "reset_undo"
    /\ Orders(history) = <<<<"plain", 3>>, <<"choco", 2>>>>
    /\ Counts(sold_food) = <<3, 2, 0, 0, 0>>
    /\ ~panicked

\* C13: undo on an empty history leaves history empty, sold_food and n
\* unchanged, and does not panic.
C13_UndoEmptyNoOp ==
    [][(history = <<>> /\ UndoButton("ok", "ok")) =>
          /\ history' = <<>>
          /\ sold_food' = sold_food
          /\ n' = n
          /\ ~panicked']_vars

\* an undo found the history empty while sold_food, loaded from its file, was not
C13_Witness ==
    /\ pattern = "undo_empty"
    /\ io # <<>>
    /\ io.by = "undo"
    /\ history = <<>>
    /\ sold_food # <<>>
    /\ ~panicked

\* C14: restart consistency.  With no I/O error, the ledger a restart loads
\* from the two files has the history and the sold_food the memory held when
\* the app was quit, and satisfies the reconstruction invariant.
C14_RestartConsistent ==
    [][Restart =>
          /\ history' = history
          /\ sold_food' = sold_food
          /\ Names(sold_food') = FlattenNames(history', LastResetPos(history') + 1)]_vars

\* C15: defensive undo of a sale.  When undo pops Order::Food(_, q) and
\* sold_food holds fewer than q units, it removes all of them and does not
\* panic; when sold_food holds at least q units it removes exactly the last q
\* and leaves the units before them unchanged and in order.
C15_DefensiveUndo ==
    [][UndoPops("Food") =>
          LET q == history[Len(history)].n
          IN /\ ~panicked'
             /\ Len(sold_food) < q => sold_food' = <<>>
             /\ Len(sold_food) >= q =>
                   sold_food' = SubSeq(sold_food, 1, Len(sold_food) - q)]_vars

\* an undo popped a sale of more units than the loaded sold_food held
C15_Witness ==
    /\ pattern = "undo_short"
    /\ io # <<>>
    /\ io.by = "undo"
    /\ sold_food = <<>>
    /\ ~panicked

\* C16: when undo pops an Order::Reset, the slice it folds, after the last
\* Reset left in history or the whole of it when none is left, holds only
\* Order::Food entries, whatever the history loaded or built: unreachable!()
\* is not executed.
C16_FoldsOnlyFood ==
    [][UndoPops("Reset") =>
          /\ \A i \in 1..Len(undo_slice(history')) :
                undo_slice(history')[i].tag = "Food"
          /\ ~panicked']_vars

\* an undo popped a Reset of a loaded history in which another Reset is left
C16_Witness ==
    /\ pattern = "undo_reset"
    /\ LastResetPos(history) > 0
    /\ ~panicked

\* the sum of the quantities of the Order::Food entries of h from position from on
RECURSIVE SumQuantities(_, _)
SumQuantities(h, from) ==
    IF from > Len(h) THEN 0
    ELSE (IF h[from].tag = "Food" THEN h[from].n ELSE 0) + SumQuantities(h, from + 1)

\* C17: the quantity of a sale is fixed at record time.  The sale stores the n
\* of the click in its Order::Food; an undo of that entry removes exactly the
\* stored quantity of units, and the replay of an undone Reset restores exactly
\* the stored quantities, whatever n is by then.
C17_QuantityFixedAtSale ==
    [][/\ (io' # <<>> /\ io'.by = "sale") =>
             /\ history'[Len(history')].n = n
             /\ Len(sold_food') = Len(sold_food) + n
       /\ UndoPops("Food") =>
             /\ Len(sold_food') = Len(sold_food) - history[Len(history)].n
             /\ sold_food' = SubSeq(sold_food, 1, Len(sold_food'))
       /\ UndoPops("Reset") =>
             Len(sold_food') = SumQuantities(history', LastResetPos(history') + 1)]_vars

\* a sale made at another quantity than the one set now was just undone over
\* an earlier sale whose stored quantity also differs from n
C17_Witness ==
    /\ pattern = "sale_undo"
    /\ io # <<>>
    /\ io.by = "undo"
    /\ history # <<>>
    /\ history[Len(history)].tag = "Food"
    /\ history[Len(history)].n # n
    /\ Len(sold_food) = history[Len(history)].n
    /\ Len(undo_stack) = Len(history)
    /\ n <= MaxN
    /\ ~panicked

\* C18: multi-step undo is an exact inverse.  Each undo returns history to
\* what it was before the newest sale or reset not yet undone and sold_food to
\* the same item names, so k undos after k sales and resets from a state S
\* give S's history and item names, and the empty ledger when S is empty.
C18_UndoIsInverse ==
    [][/\ (UndoPops("Food") \/ UndoPops("Reset")) =>
             /\ ~panicked'
             /\ history' = Top.history
             /\ Names(sold_food') = Names(Top.sold_food)
       /\ Len(undo_stack') = Len(history')
       /\ history' # <<>> =>
             undo_stack'[Len(undo_stack')].history = pop(history')
       /\ history' = <<>> => sold_food' = <<>>]_vars

\* a second undo in a row has brought back a non-empty tally
C18_Witness ==
    /\ pattern \in {"undo", "undo_reset"}
    /\ io # <<>>
    /\ io.by = "undo"
    /\ sold_food # <<>>
    /\ n # DefaultN
    /\ ~panicked

====
